---- MODULE Spec2Model ----
(***************************************************************************)
(* Model of the GCE group plugin (plugin/group/plugin.go): the registry of *)
(* watched groups p.groups and the operations CommitGroup, FreeGroup,      *)
(* DescribeGroup, DestroyGroup and InspectGroups.  Every operation holds   *)
(* p.lock from its first statement to its return, so each is one action.   *)
(* The cloud driver (gcloud.API) and the flavor plugin are collaborators:  *)
(* the calls issued to the driver by the last operation are recorded in    *)
(* `calls`, and the driver's answers are inputs of the action.             *)
(***************************************************************************)
EXTENDS Integers, Sequences, FiniteSets, TLC

VARIABLES
    groups,      \* p.groups: map[group.ID]settings
    lastOp,      \* the operation that ran last and its arguments
    err,         \* the error it returned ("" is nil)
    calls,       \* the driver calls it issued, in order
    flags,       \* CommitGroup's locals createManager/createTemplate/updateManager/resize
    description, \* the group.Description returned by DescribeGroup
    inspected,   \* the specs returned by InspectGroups
    committed,   \* history: ids with a successful non-dry-run commit since last freed/destroyed
    created,     \* history: per id, the templates created for it while tracked and not deleted since
    lock,        \* p.lock: the caller that holds it, or NoCaller
    pc,          \* per caller, its position in the operation it runs
    work         \* per caller, the request it runs and the locals of that operation

\* what the operations, run one after the other, read and write
seqVars == <<groups, lastOp, err, calls, flags, description, inspected, committed>>

\* what the callers' interleaving adds
lockVars == <<lock, pc, work>>

vars == <<groups, lastOp, err, calls, flags, description, inspected, committed, created,
          lock, pc, work>>

----------------------------------------------------------------------------
\* Bounds of the model.

\* largest currentTemplate a commit may reach
MaxVersion == 2
\* largest length of createdTemplates a commit may reach
MaxHist == 2
\* largest number of members ListInstanceGroupInstances returns
MaxMembers == 2

GroupIDs == {"g", "h"}
Sizes == {1, 2}
MachineTypes == {"n1-standard-1", "n1-standard-2"}

----------------------------------------------------------------------------
\* Error values.

ErrNil == ""
ErrBlankID == "Group ID must not be blank"
ErrParseSpec == "invalid group properties"
ErrLogicalIDs == "Allocation.LogicalIDs is not supported"
ErrAllocation == "Allocation must be > 0"
ErrFlavorLookup == "Failed to find Flavor plugin"
ErrFlavorValidate == "flavor: invalid properties"
ErrFlavorPrepare == "flavor: cannot prepare"
ErrParseInstance == "invalid instance properties"
ErrNotWatched == "This group is not being watched"
ErrDriver == "driver error"

ValidationErrors ==
    {ErrBlankID, ErrParseSpec, ErrLogicalIDs, ErrAllocation, ErrFlavorLookup,
     ErrFlavorValidate, ErrFlavorPrepare, ErrParseInstance}

----------------------------------------------------------------------------
\* Inputs: group specs (group.Spec with its Properties document).

\* A JSON list field: IsNil when the key is absent or null.
NilList == [IsNil |-> TRUE, Items |-> <<>>]
EmptyList == [IsNil |-> FALSE, Items |-> <<>>]
SomeList == [IsNil |-> FALSE, Items |-> <<"id1">>]

RawInstance(mt) == [Parsable |-> TRUE, MachineType |-> mt, NamePrefix |-> ""]

MkSpec(id, size, mt) ==
    [ID |-> id,
     Parsable |-> TRUE,
     Allocation |-> [Size |-> size, LogicalIDs |-> NilList],
     Flavor |-> [Plugin |-> "flavor-vanilla", Properties |-> "ok"],
     Instance |-> [Properties |-> RawInstance(mt)]]

\* every size and machine type for group "g"; one spec for the other group,
\* which is there to be left alone
ValidSpecs ==
    { MkSpec("g", size, mt) : size \in Sizes, mt \in MachineTypes }
    \cup { MkSpec("h", 1, "n1-standard-1") }

BaseSpec == MkSpec("g", 1, "n1-standard-1")

InvalidSpecs ==
    { [BaseSpec EXCEPT !.ID = ""],
      [BaseSpec EXCEPT !.Parsable = FALSE],
      [BaseSpec EXCEPT !.Allocation.LogicalIDs = SomeList],
      [BaseSpec EXCEPT !.Allocation.LogicalIDs = EmptyList],
      [BaseSpec EXCEPT !.Allocation.Size = 0],
      [BaseSpec EXCEPT !.Flavor.Plugin = "flavor-missing"],
      [BaseSpec EXCEPT !.Flavor.Properties = "invalid"],
      [BaseSpec EXCEPT !.Flavor.Properties = "unpreparable"],
      [BaseSpec EXCEPT !.Instance.Properties.Parsable = FALSE] }

SpecInputs == ValidSpecs \cup InvalidSpecs

NoSpec == [BaseSpec EXCEPT !.ID = "", !.Parsable = FALSE]

----------------------------------------------------------------------------
\* Helpers of validate.

\* types.ParseProperties: decode the Properties document of the group spec.
ParseSpecErr(groupSpec) == IF groupSpec.Parsable THEN ErrNil ELSE ErrParseSpec

ParseSpec(groupSpec) ==
    [Allocation |-> groupSpec.Allocation,
     Flavor |-> groupSpec.Flavor,
     Instance |-> groupSpec.Instance]

\* p.flavorPlugins(name)
FlavorLookupErr(plugin) == IF plugin = "flavor-vanilla" THEN ErrNil ELSE ErrFlavorLookup

\* flavorPlugin.Validate(properties, allocation)
FlavorValidateErr(properties, allocation) ==
    IF properties = "invalid" THEN ErrFlavorValidate ELSE ErrNil

\* flavorPlugin.Prepare(properties, instanceSpec, allocation)
FlavorPrepareErr(properties, instanceSpec, allocation) ==
    IF properties = "unpreparable" THEN ErrFlavorPrepare ELSE ErrNil

FlavorPrepare(properties, instanceSpec, allocation) ==
    [instanceSpec EXCEPT !.Tags = [k \in {"flavor"} |-> properties]]

\* instance_types.ParseProperties: decode and normalise the instance properties.
ParseInstanceErr(raw) == IF raw.Parsable THEN ErrNil ELSE ErrParseInstance

ParseInstanceProperties(raw) ==
    [NamePrefix |-> IF raw.NamePrefix = "" THEN "instance" ELSE raw.NamePrefix,
     MachineType |-> raw.MachineType]

\* instance_types.ParseMetadata: the metadata of an instance spec.
ParseMetadataErr(instanceSpec) == ParseInstanceErr(instanceSpec.Properties)

ParseMetadata(instanceSpec) == instanceSpec.Tags

NoProperties == [NamePrefix |-> "", MachineType |-> ""]
NoMetadata == [k \in {"flavor"} |-> ""]

validateErrNoSizeCheck(groupSpec) ==
    IF groupSpec.ID = "" THEN ErrBlankID
    ELSE IF ParseSpecErr(groupSpec) # ErrNil THEN ParseSpecErr(groupSpec)
    ELSE LET spec == ParseSpec(groupSpec) IN
      IF ~spec.Allocation.LogicalIDs.IsNil THEN ErrLogicalIDs
      ELSE IF FlavorLookupErr(spec.Flavor.Plugin) # ErrNil THEN ErrFlavorLookup
      ELSE IF FlavorValidateErr(spec.Flavor.Properties, spec.Allocation) # ErrNil
           THEN FlavorValidateErr(spec.Flavor.Properties, spec.Allocation)
      ELSE LET instanceSpec == [Tags |-> NoMetadata, Properties |-> spec.Instance.Properties] IN
        IF FlavorPrepareErr(spec.Flavor.Properties, instanceSpec, spec.Allocation) # ErrNil
        THEN FlavorPrepareErr(spec.Flavor.Properties, instanceSpec, spec.Allocation)
        ELSE ParseInstanceErr(
               FlavorPrepare(spec.Flavor.Properties, instanceSpec, spec.Allocation).Properties)

\* validate, lines 54-96: the first check that fails decides the error.
validateErr(groupSpec) ==
    IF groupSpec.ID = "" THEN ErrBlankID
    ELSE IF ParseSpecErr(groupSpec) # ErrNil THEN ParseSpecErr(groupSpec)
    ELSE LET spec == ParseSpec(groupSpec) IN
      IF ~spec.Allocation.LogicalIDs.IsNil THEN ErrLogicalIDs
      ELSE IF spec.Allocation.Size <= 0 THEN ErrAllocation
      ELSE IF FlavorLookupErr(spec.Flavor.Plugin) # ErrNil THEN ErrFlavorLookup
      ELSE IF FlavorValidateErr(spec.Flavor.Properties, spec.Allocation) # ErrNil
           THEN FlavorValidateErr(spec.Flavor.Properties, spec.Allocation)
      ELSE LET instanceSpec == [Tags |-> NoMetadata, Properties |-> spec.Instance.Properties] IN
        IF FlavorPrepareErr(spec.Flavor.Properties, instanceSpec, spec.Allocation) # ErrNil
        THEN FlavorPrepareErr(spec.Flavor.Properties, instanceSpec, spec.Allocation)
        ELSE ParseInstanceErr(
               FlavorPrepare(spec.Flavor.Properties, instanceSpec, spec.Allocation).Properties)

\* validate, lines 81-104: the settings returned when no check fails.
validate(groupSpec) ==
    LET spec == ParseSpec(groupSpec)
        instanceSpec ==
            FlavorPrepare(spec.Flavor.Properties,
                          [Tags |-> NoMetadata, Properties |-> spec.Instance.Properties],
                          spec.Allocation)
    IN [spec |-> spec,
        groupSpec |-> groupSpec,
        instanceSpec |-> instanceSpec,
        instanceProperties |-> ParseInstanceProperties(instanceSpec.Properties),
        currentTemplate |-> 1,
        createdTemplates |-> <<>>]

----------------------------------------------------------------------------
\* Driver calls.

Call(call, name, template, size, properties, metadata) ==
    [call |-> call, name |-> name, template |-> template, size |-> size,
     properties |-> properties, metadata |-> metadata, ok |-> TRUE]

CreateInstanceTemplate(templateName, properties, metadata) ==
    Call("CreateInstanceTemplate", templateName, "", 0, properties, metadata)

CreateInstanceGroupManager(name, templateName, targetSize, properties) ==
    Call("CreateInstanceGroupManager", name, templateName, targetSize, properties, NoMetadata)

SetInstanceTemplate(name, templateName) ==
    Call("SetInstanceTemplate", name, templateName, 0, NoProperties, NoMetadata)

ResizeInstanceGroupManager(name, targetSize) ==
    Call("ResizeInstanceGroupManager", name, "", targetSize, NoProperties, NoMetadata)

DeleteInstanceGroupManager(name) ==
    Call("DeleteInstanceGroupManager", name, "", 0, NoProperties, NoMetadata)

DeleteInstanceTemplate(name) ==
    Call("DeleteInstanceTemplate", name, "", 0, NoProperties, NoMetadata)

ListInstanceGroupInstances(name) ==
    Call("ListInstanceGroupInstances", name, "", 0, NoProperties, NoMetadata)

GetInstance(name) ==
    Call("GetInstance", name, "", 0, NoProperties, NoMetadata)

MutatingCalls ==
    {"CreateInstanceTemplate", "CreateInstanceGroupManager", "SetInstanceTemplate",
     "ResizeInstanceGroupManager", "DeleteInstanceGroupManager", "DeleteInstanceTemplate"}

\* An operation issues the calls of its plan in order and returns at the
\* first one that fails (`if err != nil { return err }` after every call):
\* failAt is the position of the failing call, 0 or beyond the plan for none.
DriverFailed(plan, failAt) == failAt \in 1..Len(plan)

IssuedKeepGoing(plan, failAt) ==
    [i \in 1..Len(plan) |-> [plan[i] EXCEPT !.ok = (i # failAt)]]

Issued(plan, failAt) ==
    IF DriverFailed(plan, failAt)
    THEN [i \in 1..failAt |-> [plan[i] EXCEPT !.ok = (i # failAt)]]
    ELSE plan

\* the templates the calls created, and the ones they deleted
CreatedBy(cs) ==
    { cs[i].name : i \in { j \in 1..Len(cs) : cs[j].ok /\ cs[j].call = "CreateInstanceTemplate" } }

DeletedBy(cs) ==
    { cs[i].name : i \in { j \in 1..Len(cs) : cs[j].ok /\ cs[j].call = "DeleteInstanceTemplate" } }

----------------------------------------------------------------------------
\* The registry.

present(id) == id \in DOMAIN groups

\* the zero value a Go map lookup returns for a missing key
ZeroSettings ==
    [spec |-> ParseSpec(NoSpec), groupSpec |-> NoSpec,
     instanceSpec |-> [Tags |-> NoMetadata, Properties |-> NoSpec.Instance.Properties],
     instanceProperties |-> NoProperties, currentTemplate |-> 0, createdTemplates |-> <<>>]

Lookup(id) == IF present(id) THEN groups[id] ELSE ZeroSettings

\* p.groups[id] = settings
Store(id, settings) ==
    [x \in (DOMAIN groups) \cup {id} |-> IF x = id THEN settings ELSE groups[x]]

DeleteAll(id) == [x \in {} |-> ZeroSettings]

\* delete(p.groups, id)
Delete(id) == [x \in (DOMAIN groups) \ {id} |-> groups[x]]

----------------------------------------------------------------------------
\* CommitGroup.

NoFlags == [createManager |-> FALSE, createTemplate |-> FALSE,
            updateManager |-> FALSE, resize |-> FALSE]

\* fmt.Sprintf("%s-%d", name, settings.currentTemplate)
TemplateName(name, version) == name \o "-" \o ToString(version)

DecideRepoints(isPresent, stored, newSettings) ==
    IF ~isPresent
    THEN [NoFlags EXCEPT !.createManager = TRUE, !.createTemplate = TRUE]
    ELSE [NoFlags EXCEPT
            !.createTemplate = (stored.instanceProperties # newSettings.instanceProperties),
            !.updateManager = (stored.instanceProperties # newSettings.instanceProperties),
            !.resize = (stored.spec.Allocation.Size # newSettings.spec.Allocation.Size)]

\* lines 122-148: which operations the commit needs
Decide(isPresent, stored, newSettings) ==
    IF ~isPresent
    THEN [NoFlags EXCEPT !.createManager = TRUE, !.createTemplate = TRUE]
    ELSE [NoFlags EXCEPT
            !.createTemplate = (stored.instanceProperties # newSettings.instanceProperties),
            !.resize = (stored.spec.Allocation.Size # newSettings.spec.Allocation.Size)]

DiffedNoBump(isPresent, stored, newSettings, pretend) ==
    IF ~isPresent THEN newSettings ELSE stored

DiffedTakesNew(isPresent, stored, newSettings, pretend) ==
    IF ~isPresent THEN newSettings
    ELSE IF stored.instanceProperties # newSettings.instanceProperties /\ ~pretend
         THEN [newSettings EXCEPT !.currentTemplate = stored.currentTemplate + 1]
         ELSE stored

\* lines 128-142: the local `settings` after the diff
Diffed(isPresent, stored, newSettings, pretend) ==
    IF ~isPresent THEN newSettings
    ELSE IF stored.instanceProperties # newSettings.instanceProperties /\ ~pretend
         THEN [stored EXCEPT !.currentTemplate = @ + 1]
         ELSE stored

RecordedOnlyNew(name, settings, pretend) ==
    LET templateName == TemplateName(name, settings.currentTemplate)
        known == { settings.createdTemplates[i] : i \in 1..Len(settings.createdTemplates) }
    IN IF pretend \/ templateName \in known THEN settings
       ELSE [settings EXCEPT !.createdTemplates = Append(@, templateName)]

\* lines 150-152: the template name is recorded on every commit that is not a dry run
Recorded(name, settings, pretend) ==
    IF pretend THEN settings
    ELSE [settings EXCEPT
            !.createdTemplates = Append(@, TemplateName(name, settings.currentTemplate))]

CommitPlanResizeStored(name, settings, fl, targetSize) ==
    (IF fl.createTemplate
     THEN <<CreateInstanceTemplate(TemplateName(name, settings.currentTemplate),
                                   settings.instanceProperties,
                                   ParseMetadata(settings.instanceSpec))>>
     ELSE <<>>)
    \o (IF fl.createManager
        THEN <<CreateInstanceGroupManager(name, TemplateName(name, settings.currentTemplate),
                                          targetSize, settings.instanceProperties)>>
        ELSE <<>>)
    \o (IF fl.updateManager
        THEN <<SetInstanceTemplate(name, TemplateName(name, settings.currentTemplate))>>
        ELSE <<>>)
    \o (IF fl.resize
        THEN <<ResizeInstanceGroupManager(name, settings.spec.Allocation.Size)>>
        ELSE <<>>)

\* lines 154-203: the driver calls of a commit that is not a dry run
CommitPlan(name, settings, fl, targetSize) ==
    (IF fl.createTemplate
     THEN <<CreateInstanceTemplate(TemplateName(name, settings.currentTemplate),
                                   settings.instanceProperties,
                                   ParseMetadata(settings.instanceSpec))>>
     ELSE <<>>)
    \o (IF fl.createManager
        THEN <<CreateInstanceGroupManager(name, TemplateName(name, settings.currentTemplate),
                                          targetSize, settings.instanceProperties)>>
        ELSE <<>>)
    \o (IF fl.updateManager
        THEN <<SetInstanceTemplate(name, TemplateName(name, settings.currentTemplate))>>
        ELSE <<>>)
    \o (IF fl.resize
        THEN <<ResizeInstanceGroupManager(name, targetSize)>>
        ELSE <<>>)

CommitOp(config, pretend) ==
    [op |-> "CommitGroup", id |-> config.ID, pretend |-> pretend, config |-> config]

\* the return of a failed operation: nothing but the error changes hands
Return(op, e, issued) ==
    /\ lastOp' = op
    /\ err' = e
    /\ calls' = issued
    /\ description' = [Converged |-> FALSE, Instances |-> <<>>]
    /\ inspected' = {}

CommitGroup(config, pretend, failAt) ==
    IF validateErr(config) # ErrNil
    THEN /\ failAt = 0
         /\ Return(CommitOp(config, pretend), validateErr(config), <<>>)
         /\ flags' = NoFlags
         /\ UNCHANGED <<groups, committed>>
    ELSE
      LET newSettings == validate(config)
          name == config.ID
          targetSize == newSettings.spec.Allocation.Size
          isPresent == present(config.ID)
          stored == Lookup(config.ID)
          fl == Decide(isPresent, stored, newSettings)
          settings == Recorded(name, Diffed(isPresent, stored, newSettings, pretend), pretend)
          metaErr == IF ~pretend /\ fl.createTemplate
                     THEN ParseMetadataErr(settings.instanceSpec) ELSE ErrNil
          plan == IF pretend \/ metaErr # ErrNil THEN <<>>
                  ELSE CommitPlan(name, settings, fl, targetSize)
      IN
      /\ settings.currentTemplate <= MaxVersion
      /\ Len(settings.createdTemplates) <= MaxHist
      /\ failAt <= Len(plan)
      /\ flags' = fl
      /\ IF metaErr # ErrNil
         THEN /\ Return(CommitOp(config, pretend), metaErr, <<>>)
              /\ UNCHANGED <<groups, committed>>
         ELSE IF DriverFailed(plan, failAt)
         THEN /\ Return(CommitOp(config, pretend), ErrDriver, Issued(plan, failAt))
              /\ UNCHANGED <<groups, committed>>
         ELSE /\ Return(CommitOp(config, pretend), ErrNil, Issued(plan, failAt))
              /\ groups' = Store(config.ID, settings)
              /\ committed' = IF pretend THEN committed ELSE committed \cup {config.ID}

----------------------------------------------------------------------------
\* FreeGroup, DescribeGroup, DestroyGroup, InspectGroups.

Op(op, id) == [op |-> op, id |-> id, pretend |-> FALSE, config |-> NoSpec]

FreeGroupNoCheck(id) ==
    /\ Return(Op("FreeGroup", id), ErrNil, <<DeleteInstanceGroupManager(id)>>)
    /\ groups' = Delete(id)
    /\ committed' = committed \ {id}
    /\ flags' = NoFlags

FreeGroup(id) ==
    /\ flags' = NoFlags
    /\ IF ~present(id)
       THEN /\ Return(Op("FreeGroup", id), ErrNotWatched, <<>>)
            /\ UNCHANGED <<groups, committed>>
       ELSE /\ Return(Op("FreeGroup", id), ErrNil, <<>>)
            /\ groups' = Delete(id)
            /\ committed' = committed \ {id}

\* the URL of a member instance, as its path segments
MemberURL(name, i) == <<"zones", "instances", name \o "-vm" \o ToString(i)>>

\* last: the final segment of a URL split at "/"
last(url) == url[Len(url)]

\* lines 238-257: list the members, then fetch each of them
DescribePlan(name, members) ==
    <<ListInstanceGroupInstances(name)>>
    \o [i \in 1..Len(members) |-> GetInstance(last(members[i]))]

ConvergedAtLeast(members, currentSettings) ==
    Len(members) >= currentSettings.spec.Allocation.Size

\* line 260: len(instanceGroupInstances) == int(currentSettings.spec.Allocation.Size)
Converged(members, currentSettings) ==
    Len(members) = currentSettings.spec.Allocation.Size

DescribeGroup(id, count, failAt) ==
    /\ flags' = NoFlags
    /\ UNCHANGED <<groups, committed>>
    /\ lastOp' = Op("DescribeGroup", id)
    /\ inspected' = {}
    /\ IF ~present(id)
       THEN /\ count = 0 /\ failAt = 0
            /\ err' = ErrNotWatched
            /\ calls' = <<>>
            /\ description' = [Converged |-> FALSE, Instances |-> <<>>]
       ELSE LET currentSettings == groups[id]
                members == [i \in 1..count |-> MemberURL(id, i)]
                \* a failed listing returns no members
                plan == IF failAt = 1 THEN <<ListInstanceGroupInstances(id)>>
                        ELSE DescribePlan(id, members)
            IN /\ failAt <= Len(plan)
               /\ calls' = Issued(plan, failAt)
               /\ IF DriverFailed(plan, failAt)
                  THEN /\ err' = ErrDriver
                       /\ description' = [Converged |-> FALSE, Instances |-> <<>>]
                  ELSE /\ err' = ErrNil
                       /\ description' =
                            [Converged |-> Converged(members, currentSettings),
                             Instances |-> [i \in 1..Len(members) |-> last(members[i])]]

DestroyPlanCurrentOnly(name, currentSettings) ==
    <<DeleteInstanceGroupManager(name),
      DeleteInstanceTemplate(TemplateName(name, currentSettings.currentTemplate))>>

DestroyPlanDistinct(name, currentSettings) ==
    LET ts == currentSettings.createdTemplates
        firsts == SelectSeq([i \in 1..Len(ts) |-> i],
                            LAMBDA i : \A j \in 1..(i - 1) : ts[j] # ts[i])
    IN <<DeleteInstanceGroupManager(name)>>
       \o [k \in 1..Len(firsts) |-> DeleteInstanceTemplate(ts[firsts[k]])]

\* lines 276-284: the manager first, then every recorded template
DestroyPlan(name, currentSettings) ==
    <<DeleteInstanceGroupManager(name)>>
    \o [i \in 1..Len(currentSettings.createdTemplates) |->
          DeleteInstanceTemplate(currentSettings.createdTemplates[i])]

DestroyGroup(id, failAt) ==
    /\ flags' = NoFlags
    /\ IF ~present(id)
       THEN /\ failAt = 0
            /\ Return(Op("DestroyGroup", id), ErrNotWatched, <<>>)
            /\ UNCHANGED <<groups, committed>>
       ELSE LET plan == DestroyPlan(id, groups[id]) IN
            /\ failAt <= Len(plan)
            /\ IF DriverFailed(plan, failAt)
               THEN /\ Return(Op("DestroyGroup", id), ErrDriver, Issued(plan, failAt))
                    /\ UNCHANGED <<groups, committed>>
               ELSE /\ Return(Op("DestroyGroup", id), ErrNil, Issued(plan, failAt))
                    /\ groups' = Delete(id)
                    /\ committed' = committed \ {id}

InspectGroups ==
    /\ lastOp' = Op("InspectGroups", "")
    /\ err' = ErrNil
    /\ calls' = <<>>
    /\ description' = [Converged |-> FALSE, Instances |-> <<>>]
    /\ inspected' = { groups[id].groupSpec : id \in DOMAIN groups }
    /\ flags' = NoFlags
    /\ UNCHANGED <<groups, committed>>

----------------------------------------------------------------------------
\* The state machine.

Callers == {"c1", "c2"}
NoCaller == ""
NoWork == [op |-> Op("NewGCEGroupPlugin", ""), snapshot |-> ZeroSettings, settings |-> ZeroSettings,
           plan |-> <<>>, next |-> 1, write |-> "none", err |-> ErrNil]

\* NewGCEGroupPlugin: an empty registry, the lock free, no caller inside
Init ==
    /\ groups = [x \in {} |-> ZeroSettings]
    /\ lastOp = Op("NewGCEGroupPlugin", "")
    /\ err = ErrNil
    /\ calls = <<>>
    /\ flags = NoFlags
    /\ description = [Converged |-> FALSE, Instances |-> <<>>]
    /\ inspected = {}
    /\ committed = {}
    /\ created = [id \in GroupIDs |-> {}]
    /\ lock = NoCaller
    /\ pc = [c \in Callers |-> "idle"]
    /\ work = [c \in Callers |-> NoWork]

\* a plan has at most 1 + MaxHist or 1 + MaxMembers calls
FailPoints == 0..(1 + (IF MaxHist >= MaxMembers THEN MaxHist ELSE MaxMembers))

\* The operations run one after the other, each as a whole (the lock is free
\* before and after); the history of created templates is not kept here.
Next ==
    \/ \E config \in SpecInputs, pretend \in BOOLEAN, failAt \in FailPoints :
          CommitGroup(config, pretend, failAt) /\ UNCHANGED <<created, lock, pc, work>>
    \/ \E id \in GroupIDs :
          FreeGroup(id) /\ UNCHANGED <<created, lock, pc, work>>
    \/ \E id \in GroupIDs, count \in 0..MaxMembers, failAt \in FailPoints :
          DescribeGroup(id, count, failAt) /\ UNCHANGED <<created, lock, pc, work>>
    \/ \E id \in GroupIDs, failAt \in FailPoints :
          DestroyGroup(id, failAt) /\ UNCHANGED <<created, lock, pc, work>>
    \/ InspectGroups /\ UNCHANGED <<created, lock, pc, work>>

Spec == Init /\ [][Next]_vars

----------------------------------------------------------------------------
\* Vocabulary of the properties.

\* the step just taken ran CommitGroup for real (not a dry run)
RealCommitStep == lastOp'.op = "CommitGroup" /\ ~lastOp'.pretend

\* the state is the one a successful real commit returned in
AfterRealCommit == lastOp.op = "CommitGroup" /\ ~lastOp.pretend /\ err = ErrNil

\* no call of the sequence was answered with an error
AllOk(cs) == \A i \in 1..Len(cs) : cs[i].ok

\* the registry without the entry of g
Without(g) == [x \in (DOMAIN groups) \ {g} |-> groups[x]]

----------------------------------------------------------------------------
\* C1: the first non-dry-run CommitGroup for a group g (no successful
\* non-dry-run commit since g was last freed or destroyed) never resizes, and
\* when it succeeds it has issued exactly CreateInstanceTemplate("g-1") then
\* CreateInstanceGroupManager(g) sized to allocation.size, and the registry
\* entry has currentTemplate = 1 and createdTemplates = <<"g-1">>.
C1_FirstCommitCreatesBoth ==
    [][ \A g \in GroupIDs :
          (RealCommitStep /\ lastOp'.id = g /\ g \notin committed
             /\ err' \notin ValidationErrors)
          => /\ \A i \in 1..Len(calls') : calls'[i].call # "ResizeInstanceGroupManager"
             /\ (err' = ErrNil) =>
                  /\ Len(calls') = 2
                  /\ calls'[1].call = "CreateInstanceTemplate"
                  /\ calls'[1].name = g \o "-1"
                  /\ calls'[2].call = "CreateInstanceGroupManager"
                  /\ calls'[2].name = g
                  /\ calls'[2].size = lastOp'.config.Allocation.Size
                  /\ g \in DOMAIN groups'
                  /\ groups'[g].currentTemplate = 1
                  /\ groups'[g].createdTemplates = <<g \o "-1">>
      ]_vars

\* C2: a CommitGroup with pretend = true leaves the whole registry unchanged
\* (no entry added, no version bump, no history entry) and issues no driver
\* create/resize/delete call, in any reachable state.
C2_DryRunChangesNothing ==
    [][ (lastOp'.op = "CommitGroup" /\ lastOp'.pretend)
        => /\ groups' = groups
           /\ \A i \in 1..Len(calls') : calls'[i].call \notin MutatingCalls
      ]_vars

\* C3: when a successful non-dry-run CommitGroup(s) is immediately followed
\* by another successful non-dry-run CommitGroup(s) with the identical spec,
\* the second commit issues zero driver calls.
C3_IdenticalCommitIsNoOp ==
    [][ (AfterRealCommit /\ lastOp' = lastOp /\ err' = ErrNil)
        => calls' = <<>>
      ]_vars

\* C4: after every successful non-dry-run CommitGroup(s) the registry entry
\* of s.ID holds the settings of s: its declared spec, its allocation size
\* and its instance properties.
C4_RegistryHoldsCommittedSpec ==
    AfterRealCommit
    => /\ lastOp.id \in DOMAIN groups
       /\ groups[lastOp.id].groupSpec = lastOp.config
       /\ groups[lastOp.id].spec.Allocation.Size = lastOp.config.Allocation.Size
       /\ groups[lastOp.id].instanceProperties = validate(lastOp.config).instanceProperties

\* C5: for a tracked group g at version v, a successful non-dry-run commit
\* whose instance properties differ from the stored ones and whose size
\* equals the stored size raises currentTemplate to v+1, issues exactly one
\* driver call, CreateInstanceTemplate("g-<v+1>"), and appends that name to
\* createdTemplates (no resize, no manager creation, no template deletion).
C5_PropertyOnlyChange ==
    [][ \A g \in GroupIDs :
          (RealCommitStep /\ lastOp'.id = g /\ err' = ErrNil /\ g \in DOMAIN groups
             /\ groups[g].instanceProperties # validate(lastOp'.config).instanceProperties
             /\ groups[g].spec.Allocation.Size = lastOp'.config.Allocation.Size)
          => LET v == groups[g].currentTemplate
                 newName == g \o "-" \o ToString(v + 1)
             IN /\ g \in DOMAIN groups'
                /\ groups'[g].currentTemplate = v + 1
                /\ Len(calls') = 1
                /\ calls'[1].call = "CreateInstanceTemplate"
                /\ calls'[1].name = newName
                /\ groups'[g].createdTemplates = Append(groups[g].createdTemplates, newName)
      ]_vars

\* C5 witness: a real commit on a tracked group has succeeded with a template
\* change only, and the group is past version 1.
C5_Witness ==
    /\ AfterRealCommit
    /\ flags.createTemplate /\ ~flags.createManager /\ ~flags.resize
    /\ groups[lastOp.id].currentTemplate >= 2
    /\ Len(groups[lastOp.id].createdTemplates) >= 2

\* the premise of C6: a successful real commit on tracked g with equal
\* instance properties and a different size
SizeOnlyStep(g) ==
    /\ RealCommitStep /\ lastOp'.id = g /\ err' = ErrNil /\ g \in DOMAIN groups
    /\ groups[g].instanceProperties = validate(lastOp'.config).instanceProperties
    /\ groups[g].spec.Allocation.Size # lastOp'.config.Allocation.Size

\* the only driver call was a resize of g to the committed size
OnlyResized(g) ==
    /\ Len(calls') = 1
    /\ calls'[1].call = "ResizeInstanceGroupManager"
    /\ calls'[1].name = g
    /\ calls'[1].size = lastOp'.config.Allocation.Size

\* C6 as stated: a size-only commit issues exactly one resize with the new
\* size and no other driver call, and leaves both currentTemplate and
\* createdTemplates unchanged.
C6_SizeOnlyChange_Original ==
    [][ \A g \in GroupIDs :
          SizeOnlyStep(g)
          => /\ OnlyResized(g)
             /\ groups'[g].currentTemplate = groups[g].currentTemplate
             /\ groups'[g].createdTemplates = groups[g].createdTemplates
      ]_vars

\* C6 as amended: a size-only commit issues exactly one resize with the new
\* size and no other driver call, leaves currentTemplate unchanged, and
\* extends createdTemplates by one entry, the name of the current template.
C6_SizeOnlyChange ==
    [][ \A g \in GroupIDs :
          SizeOnlyStep(g)
          => /\ OnlyResized(g)
             /\ groups'[g].currentTemplate = groups[g].currentTemplate
             /\ groups'[g].createdTemplates =
                  Append(groups[g].createdTemplates,
                         g \o "-" \o ToString(groups[g].currentTemplate))
      ]_vars

\* C6 witness: a real commit has succeeded with a resize only, to a size
\* other than the stored one.
C6_Witness ==
    /\ AfterRealCommit
    /\ flags.resize /\ ~flags.createTemplate /\ ~flags.createManager
    /\ Len(calls) = 1
    /\ calls[1].size # groups[lastOp.id].spec.Allocation.Size

\* C7: when a driver call fails during CommitGroup or DestroyGroup, the
\* operation returns the error, the failed call is the last call it issued,
\* it issues no compensating call (a commit deletes nothing, a destroy
\* creates nothing), and the registry is exactly as before.
C7_DriverFailureAborts ==
    [][ (lastOp'.op \in {"CommitGroup", "DestroyGroup"} /\ ~AllOk(calls'))
        => /\ err' = ErrDriver
           /\ groups' = groups
           /\ \A i \in 1..Len(calls') : calls'[i].ok <=> (i < Len(calls'))
           /\ lastOp'.op = "CommitGroup" =>
                \A i \in 1..Len(calls') :
                   calls'[i].call \notin {"DeleteInstanceTemplate", "DeleteInstanceGroupManager"}
           /\ lastOp'.op = "DestroyGroup" =>
                \A i \in 1..Len(calls') :
                   calls'[i].call \in {"DeleteInstanceTemplate", "DeleteInstanceGroupManager"}
      ]_vars

\* C7 witness: a DestroyGroup failed on a template deletion while templates
\* remained to be deleted, and the entry is still there.
C7_Witness ==
    /\ lastOp.op = "DestroyGroup" /\ err = ErrDriver
    /\ lastOp.id \in DOMAIN groups
    /\ Len(calls) >= 2
    /\ Len(calls) < 1 + Len(groups[lastOp.id].createdTemplates)

\* C8: a DestroyGroup(g) on a tracked group with no driver failure issues
\* DeleteInstanceGroupManager(g) first, then DeleteInstanceTemplate for every
\* name of g's createdTemplates in order, and removes g's entry, leaving the
\* other entries unchanged.
C8_DestroyOrder ==
    [][ \A g \in GroupIDs :
          (lastOp'.op = "DestroyGroup" /\ lastOp'.id = g /\ g \in DOMAIN groups
             /\ AllOk(calls'))
          => LET names == groups[g].createdTemplates IN
             /\ err' = ErrNil
             /\ Len(calls') = 1 + Len(names)
             /\ calls'[1].call = "DeleteInstanceGroupManager"
             /\ calls'[1].name = g
             /\ \A i \in 1..Len(names) :
                   /\ calls'[i + 1].call = "DeleteInstanceTemplate"
                   /\ calls'[i + 1].name = names[i]
             /\ groups' = Without(g)
      ]_vars

\* C8 witness: a DestroyGroup has succeeded after deleting two templates of
\* different versions, and another group is still tracked.
C8_Witness ==
    /\ lastOp.op = "DestroyGroup" /\ err = ErrNil
    /\ Len(calls) >= 3
    /\ calls[2].name # calls[3].name
    /\ lastOp.id \notin DOMAIN groups
    /\ DOMAIN groups # {}

\* C9: FreeGroup, DescribeGroup and DestroyGroup on a group ID that is not in
\* the registry return the not-watched error, issue no driver call and leave
\* the registry unchanged.
C9_UnknownID ==
    [][ (lastOp'.op \in {"FreeGroup", "DescribeGroup", "DestroyGroup"}
           /\ lastOp'.id \notin DOMAIN groups)
        => /\ err' = ErrNotWatched
           /\ calls' = <<>>
           /\ groups' = groups
      ]_vars

\* C9 witness: an operation on an unknown ID was refused while another group
\* was tracked.
C9_Witness ==
    /\ lastOp.op \in {"FreeGroup", "DescribeGroup", "DestroyGroup"}
    /\ err = ErrNotWatched
    /\ lastOp.id \notin DOMAIN groups
    /\ DOMAIN groups # {}

\* C10: FreeGroup(g) on a tracked group removes exactly g's entry, leaves
\* every other entry unchanged and issues no driver call.
C10_FreeDropsOnlyEntry ==
    [][ \A g \in GroupIDs :
          (lastOp'.op = "FreeGroup" /\ lastOp'.id = g /\ g \in DOMAIN groups)
          => /\ err' = ErrNil
             /\ calls' = <<>>
             /\ groups' = Without(g)
      ]_vars

\* C10 witness: a FreeGroup has succeeded and removed the entry, and another
\* group is still tracked.
C10_Witness ==
    /\ lastOp.op = "FreeGroup" /\ err = ErrNil
    /\ lastOp.id \notin DOMAIN groups
    /\ DOMAIN groups # {}

----------------------------------------------------------------------------
\* C11: a DescribeGroup(g) on a tracked group whose driver reads all succeed
\* reports Converged = TRUE exactly when the number of members listed (one
\* GetInstance call and one reported instance per member) equals the
\* allocation size stored for g, and it leaves the registry unchanged.
C11_Convergence ==
    [][ \A g \in GroupIDs :
          (lastOp'.op = "DescribeGroup" /\ lastOp'.id = g /\ g \in DOMAIN groups
             /\ AllOk(calls'))
          => /\ err' = ErrNil
             /\ Len(calls') >= 1
             /\ calls'[1].call = "ListInstanceGroupInstances"
             /\ Len(description'.Instances) = Len(calls') - 1
             /\ description'.Converged
                  <=> (Len(calls') - 1 = groups[g].spec.Allocation.Size)
             /\ groups' = groups
      ]_vars

\* C11 witness: a DescribeGroup has reported a group of stored size 2 with
\* two live members as converged.
C11_Witness ==
    /\ lastOp.op = "DescribeGroup" /\ err = ErrNil
    /\ lastOp.id \in DOMAIN groups
    /\ groups[lastOp.id].spec.Allocation.Size = 2
    /\ Len(description.Instances) = 2
    /\ description.Converged

----------------------------------------------------------------------------
\* a spec that validation has to refuse: blank ID, undecodable properties,
\* non-empty logicalIDs, size <= 0, unknown flavor plugin, a flavor that
\* rejects or cannot prepare it, or undecodable instance properties
MustBeRefused(config) ==
    \/ config.ID = ""
    \/ ~config.Parsable
    \/ config.Allocation.LogicalIDs.Items # <<>>
    \/ config.Allocation.Size <= 0
    \/ config.Flavor.Plugin # "flavor-vanilla"
    \/ config.Flavor.Properties # "ok"
    \/ ~config.Instance.Properties.Parsable

\* C12: a CommitGroup (dry run or not) whose spec fails validation returns a
\* validation error, issues no driver call and leaves the registry unchanged.
C12_ValidationFirst ==
    [][ (lastOp'.op = "CommitGroup" /\ MustBeRefused(lastOp'.config))
        => /\ err' \in ValidationErrors
           /\ calls' = <<>>
           /\ groups' = groups
      ]_vars

\* C12 witness: a real commit with allocation size 0 for a tracked group was
\* refused.
C12_Witness ==
    /\ lastOp.op = "CommitGroup" /\ ~lastOp.pretend
    /\ lastOp.config.Allocation.Size = 0
    /\ err = ErrAllocation
    /\ lastOp.id \in DOMAIN groups

----------------------------------------------------------------------------
\* C14: every successful non-dry-run CommitGroup for g extends g's
\* createdTemplates by exactly one entry, "<g>-<currentTemplate>" with the
\* version as it stands after this commit, also when the commit creates no
\* template (an untracked g starts from the empty history).
C14_EveryCommitRecordsName ==
    [][ \A g \in GroupIDs :
          (RealCommitStep /\ lastOp'.id = g /\ err' = ErrNil)
          => /\ g \in DOMAIN groups'
             /\ groups'[g].createdTemplates =
                  Append(Lookup(g).createdTemplates,
                         g \o "-" \o ToString(groups'[g].currentTemplate))
      ]_vars

\* C14 witness: a real commit that created no template and issued no driver
\* call has succeeded, and the history holds the same name twice.
C14_Witness ==
    /\ AfterRealCommit
    /\ ~flags.createTemplate /\ calls = <<>>
    /\ Len(groups[lastOp.id].createdTemplates) = 2
    /\ groups[lastOp.id].createdTemplates[1] = groups[lastOp.id].createdTemplates[2]

----------------------------------------------------------------------------
\* C15: no operation ever issues a SetInstanceTemplate driver call, and
\* CommitGroup's updateManager flag is never set: an existing manager is never
\* re-pointed at a newly created template.
C15_NeverSetsInstanceTemplate ==
    /\ ~flags.updateManager
    /\ \A i \in 1..Len(calls) : calls[i].call # "SetInstanceTemplate"

\* C15 witness: a real commit on a tracked group has created a new template
\* and resized the existing manager, which was not created by this commit.
C15_Witness ==
    /\ AfterRealCommit
    /\ flags.createTemplate /\ flags.resize /\ ~flags.createManager
    /\ Len(calls) = 2
    /\ calls[1].call = "CreateInstanceTemplate"

----------------------------------------------------------------------------
\* every tracked group is at version >= 1 and each name of its history is
\* "<g>-<k>" for some k between 1 and its current version
VersionsInRange(reg) ==
    \A g \in DOMAIN reg :
       /\ reg[g].currentTemplate >= 1
       /\ \A i \in 1..Len(reg[g].createdTemplates) :
             \E k \in 1..reg[g].currentTemplate :
                reg[g].createdTemplates[i] = g \o "-" \o ToString(k)

\* C16: in every reachable state each tracked group g has currentTemplate
\* >= 1 and only names "<g>-<k>", 1 <= k <= currentTemplate, in
\* createdTemplates; one step raises the version of a group that stays tracked
\* by 0 or 1 and keeps its history as a prefix of the new one; and an entry
\* disappears only by a FreeGroup or DestroyGroup of that group.
C16_VersionAndHistoryGrow ==
    [][ /\ VersionsInRange(groups')
        /\ \A g \in DOMAIN groups :
              IF g \in DOMAIN groups'
              THEN /\ groups'[g].currentTemplate - groups[g].currentTemplate \in {0, 1}
                   /\ Len(groups'[g].createdTemplates) >= Len(groups[g].createdTemplates)
                   /\ SubSeq(groups'[g].createdTemplates, 1, Len(groups[g].createdTemplates))
                        = groups[g].createdTemplates
              ELSE lastOp'.op \in {"FreeGroup", "DestroyGroup"} /\ lastOp'.id = g
      ]_vars

\* C16 witness: a group that was committed twice is at version 2 with the
\* names of both versions in its history.
C16_Witness ==
    /\ "g" \in DOMAIN groups
    /\ groups["g"].currentTemplate = 2
    /\ groups["g"].createdTemplates = <<"g-1", "g-2">>

----------------------------------------------------------------------------
\* C17: validation accepts an otherwise valid spec whose
\* allocation.logicalIDs is absent or an empty list, and rejects it exactly
\* when logicalIDs is a non-empty list.
C17_LogicalIDsRejectedIffNonEmpty ==
    (/\ lastOp.op = "CommitGroup"
     /\ ~MustBeRefused([lastOp.config EXCEPT !.Allocation.LogicalIDs = NilList]))
    => ((err \in ValidationErrors) <=> (lastOp.config.Allocation.LogicalIDs.Items # <<>>))

----------------------------------------------------------------------------
\* C18: when a non-dry-run CommitGroup on an already tracked group creates a
\* new template, the instance properties and metadata handed to
\* CreateInstanceTemplate are those of the spec being committed, not those
\* stored by an earlier commit.
C18_NewTemplateFromNewSpec ==
    [][(/\ RealCommitStep
        /\ present(lastOp'.id)
        /\ calls' # <<>>
        /\ calls'[1].call = "CreateInstanceTemplate")
       => (/\ calls'[1].properties = validate(lastOp'.config).instanceProperties
           /\ calls'[1].metadata = ParseMetadata(validate(lastOp'.config).instanceSpec))]_vars

----------------------------------------------------------------------------
\* C19 (as stated): in every reachable state the createdTemplates list of
\* each tracked group holds no name twice.
C19_NoDuplicateNames ==
    \A g \in DOMAIN groups :
       \A i, j \in 1..Len(groups[g].createdTemplates) :
          groups[g].createdTemplates[i] = groups[g].createdTemplates[j] => i = j

\* C19 (amended): the createdTemplates list of a tracked group g holds only
\* names "<g>-<v>" with v between 1 and g's currentTemplate, and it may hold
\* a name several times; a successful DestroyGroup(g) issues
\* DeleteInstanceTemplate for a name exactly as many times as the name
\* occurs in the list.
C19_OneDeletePerEntry ==
    [][ /\ \A g \in DOMAIN groups' :
             \A i \in 1..Len(groups'[g].createdTemplates) :
                \E v \in 1..groups'[g].currentTemplate :
                   groups'[g].createdTemplates[i] = TemplateName(g, v)
        /\ \A g \in GroupIDs :
             (lastOp'.op = "DestroyGroup" /\ lastOp'.id = g /\ present(g) /\ err' = ErrNil)
             => \A v \in 1..groups[g].currentTemplate :
                   Cardinality({i \in 1..Len(calls') :
                                   /\ calls'[i].call = "DeleteInstanceTemplate"
                                   /\ calls'[i].name = TemplateName(g, v)})
                   = Cardinality({i \in 1..Len(groups[g].createdTemplates) :
                                   groups[g].createdTemplates[i] = TemplateName(g, v)})
      ]_vars

\* C19 witness: a DestroyGroup has succeeded after deleting the same
\* template name twice in a row.
C19_Witness ==
    /\ lastOp.op = "DestroyGroup" /\ err = ErrNil
    /\ Len(calls) >= 3
    /\ calls[2].call = "DeleteInstanceTemplate"
    /\ calls[2].name = calls[3].name

----------------------------------------------------------------------------
\* The cloud side of the templates: created[g] is the set of template names
\* the driver has created for g during its present tracking and not deleted
\* since.  It is a history variable: no operation reads it.

\* a commit adds the names its CreateInstanceTemplate calls created; the
\* commit that starts tracking g starts the set afresh
TrackCommit(id) ==
    created' = IF id \notin GroupIDs THEN created
               ELSE [created EXCEPT ![id] =
                       IF present(id) THEN @ \cup CreatedBy(calls')
                       ELSE IF err' = ErrNil THEN CreatedBy(calls') ELSE {}]

\* a destroy removes the names its DeleteInstanceTemplate calls deleted
TrackDestroy(id) ==
    created' = [created EXCEPT ![id] = @ \ DeletedBy(calls')]

\* a free ends the tracking of the group without touching the cloud
TrackFree(id) ==
    created' = [created EXCEPT ![id] = IF err' = ErrNil THEN {} ELSE @]

NextCloud ==
    \/ \E config \in SpecInputs, pretend \in BOOLEAN, failAt \in FailPoints :
          CommitGroup(config, pretend, failAt) /\ TrackCommit(config.ID)
          /\ UNCHANGED lockVars
    \/ \E id \in GroupIDs : FreeGroup(id) /\ TrackFree(id) /\ UNCHANGED lockVars
    \/ \E id \in GroupIDs, count \in 0..MaxMembers, failAt \in FailPoints :
          DescribeGroup(id, count, failAt) /\ UNCHANGED <<created, lock, pc, work>>
    \/ \E id \in GroupIDs, failAt \in FailPoints :
          DestroyGroup(id, failAt) /\ TrackDestroy(id) /\ UNCHANGED lockVars
    \/ InspectGroups /\ UNCHANGED <<created, lock, pc, work>>

SpecCloud == Init /\ [][NextCloud]_vars

\* C20: after any sequence of commits, failed ones included, a successful
\* DestroyGroup(g) leaves no template behind: every template the driver
\* created for g while g was tracked has been deleted.
C20_TeardownLeavesNothing ==
    (lastOp.op = "DestroyGroup" /\ err = ErrNil) => created[lastOp.id] = {}

----------------------------------------------------------------------------
\* Concurrent callers.  Every public operation starts with p.lock.Lock() and
\* a deferred p.lock.Unlock(); between them it reads the registry, issues its
\* driver calls one at a time and writes the registry.  Each caller moves
\* idle -> waiting -> read -> call -> unlock -> idle.

\* the specs the concurrent callers commit
LockSpecs ==
    { BaseSpec, MkSpec("g", 2, "n1-standard-2"), MkSpec("h", 1, "n1-standard-1"),
      [BaseSpec EXCEPT !.Allocation.Size = 0] }

\* the calls a caller can make on the plugin
Requests ==
    { CommitOp(config, pretend) : config \in LockSpecs, pretend \in BOOLEAN }
    \cup { Op(o, id) : o \in {"FreeGroup", "DescribeGroup", "DestroyGroup"}, id \in GroupIDs }
    \cup { Op("InspectGroups", "") }

\* an operation that returns before any driver call or registry write
EarlyReturn(req, e) == [NoWork EXCEPT !.op = req, !.snapshot = Lookup(req.id), !.err = e]

\* lines 112-206 up to the first driver call: validate, read the registry
\* entry, diff, and prepare the calls and the settings to store
CommitWork(req) ==
    IF validateErr(req.config) # ErrNil
    THEN EarlyReturn(req, validateErr(req.config))
    ELSE
      LET newSettings == validate(req.config)
          name == req.config.ID
          targetSize == newSettings.spec.Allocation.Size
          isPresent == present(name)
          stored == Lookup(name)
          fl == Decide(isPresent, stored, newSettings)
          settings == Recorded(name, Diffed(isPresent, stored, newSettings, req.pretend),
                               req.pretend)
          metaErr == IF ~req.pretend /\ fl.createTemplate
                     THEN ParseMetadataErr(settings.instanceSpec) ELSE ErrNil
      IN IF metaErr # ErrNil
         THEN EarlyReturn(req, metaErr)
         ELSE [op |-> req, snapshot |-> stored, settings |-> settings,
               plan |-> IF req.pretend THEN <<>>
                        ELSE CommitPlan(name, settings, fl, targetSize),
               next |-> 1, write |-> "store", err |-> ErrNil]

\* the registry read of each operation and what the operation goes on to do
ReadWork(req, count) ==
    IF req.op = "CommitGroup" THEN CommitWork(req)
    ELSE IF req.op = "InspectGroups" THEN [NoWork EXCEPT !.op = req]
    ELSE IF ~present(req.id) THEN EarlyReturn(req, ErrNotWatched)
    ELSE [op |-> req, snapshot |-> groups[req.id], settings |-> groups[req.id],
          plan |-> IF req.op = "DestroyGroup" THEN DestroyPlan(req.id, groups[req.id])
                   ELSE IF req.op = "DescribeGroup"
                   THEN DescribePlan(req.id, [i \in 1..count |-> MemberURL(req.id, i)])
                   ELSE <<>>,
          next |-> 1,
          write |-> IF req.op = "DescribeGroup" THEN "none" ELSE "delete",
          err |-> ErrNil]

\* the version counter and the history stay within the bounds
WithinBounds(req) ==
    /\ ReadWork(req, 0).settings.currentTemplate <= MaxVersion
    /\ Len(ReadWork(req, 0).settings.createdTemplates) <= MaxHist

\* a caller calls an operation of the plugin
Request(c, req) ==
    /\ pc[c] = "idle"
    /\ pc' = [pc EXCEPT ![c] = "waiting"]
    /\ work' = [work EXCEPT ![c] = [NoWork EXCEPT !.op = req]]
    /\ UNCHANGED <<groups, lock>>

AcquireUnguarded(c) ==
    /\ pc[c] = "waiting"
    /\ WithinBounds(work[c].op)
    /\ lock' = c
    /\ pc' = [pc EXCEPT ![c] = "read"]
    /\ UNCHANGED <<groups, work>>

\* p.lock.Lock(): blocks until the lock is free
Acquire(c) ==
    /\ pc[c] = "waiting"
    /\ lock = NoCaller
    /\ WithinBounds(work[c].op)
    /\ lock' = c
    /\ pc' = [pc EXCEPT ![c] = "read"]
    /\ UNCHANGED <<groups, work>>

\* the operation reads the registry; an early return goes to the unlock
Read(c, count) ==
    /\ pc[c] = "read"
    /\ count = 0 \/ (work[c].op.op = "DescribeGroup" /\ present(work[c].op.id))
    /\ work' = [work EXCEPT ![c] = ReadWork(work[c].op, count)]
    /\ pc' = [pc EXCEPT ![c] = IF ReadWork(work[c].op, count).err # ErrNil
                               THEN "unlock" ELSE "call"]
    /\ UNCHANGED <<groups, lock>>

\* the next driver call of the operation; a failed call returns the error
DriverCall(c, ok) ==
    /\ pc[c] = "call"
    /\ work[c].next <= Len(work[c].plan)
    /\ IF ok
       THEN /\ work' = [work EXCEPT ![c].next = @ + 1]
            /\ UNCHANGED pc
       ELSE /\ work' = [work EXCEPT ![c].err = ErrDriver]
            /\ pc' = [pc EXCEPT ![c] = "unlock"]
    /\ UNCHANGED <<groups, lock>>

\* lines 206, 220, 286: after the last driver call the registry is written
Write(c) ==
    /\ pc[c] = "call"
    /\ work[c].next > Len(work[c].plan)
    /\ groups' = IF work[c].write = "store" THEN Store(work[c].op.id, work[c].settings)
                 ELSE IF work[c].write = "delete" THEN Delete(work[c].op.id)
                 ELSE groups
    /\ pc' = [pc EXCEPT ![c] = "unlock"]
    /\ UNCHANGED <<lock, work>>

\* the deferred p.lock.Unlock() runs as the operation returns
Unlock(c) ==
    /\ pc[c] = "unlock"
    /\ lock' = NoCaller
    /\ pc' = [pc EXCEPT ![c] = "idle"]
    /\ work' = [work EXCEPT ![c] = NoWork]
    /\ UNCHANGED groups

NextLock ==
    \/ \E c \in Callers, req \in Requests :
          Request(c, req) /\ UNCHANGED <<lastOp, err, calls, flags, description, inspected, committed, created>>
    \/ \E c \in Callers :
          Acquire(c) /\ UNCHANGED <<lastOp, err, calls, flags, description, inspected, committed, created>>
    \/ \E c \in Callers, count \in 0..MaxMembers :
          Read(c, count) /\ UNCHANGED <<lastOp, err, calls, flags, description, inspected, committed, created>>
    \/ \E c \in Callers, ok \in BOOLEAN :
          DriverCall(c, ok) /\ UNCHANGED <<lastOp, err, calls, flags, description, inspected, committed, created>>
    \/ \E c \in Callers :
          Write(c) /\ UNCHANGED <<lastOp, err, calls, flags, description, inspected, committed, created>>
    \/ \E c \in Callers :
          Unlock(c) /\ UNCHANGED <<lastOp, err, calls, flags, description, inspected, committed, created>>

SpecLock == Init /\ [][NextLock]_vars

\* the caller is between its Lock() and its Unlock()
Inside(c) == pc[c] \in {"read", "call", "unlock"}

\* C13: under any interleaving of concurrent callers at most one operation is
\* between taking the lock and releasing it, the lock is held by that caller
\* from its registry read over all its driver calls to its registry write,
\* and while an operation issues its driver calls the registry entry it read
\* is still the one in the registry, so no other operation has read, written
\* or called the driver in between.
C13_OneOperationAtATime ==
    /\ \A c1, c2 \in Callers : (Inside(c1) /\ Inside(c2)) => c1 = c2
    /\ \A c \in Callers : Inside(c) => lock = c
    /\ \A c \in Callers :
          pc[c] = "call" => work[c].snapshot = Lookup(work[c].op.id)

\* C13 witness: one caller is in the middle of the driver calls of a commit
\* (one call issued, another to come) while the other caller waits for the
\* lock with a commit for the same group.
C13_Witness ==
    \E c1, c2 \in Callers :
       /\ pc[c1] = "call" /\ work[c1].op.op = "CommitGroup"
       /\ work[c1].next = 2 /\ Len(work[c1].plan) = 2
       /\ pc[c2] = "waiting" /\ work[c2].op.op = "CommitGroup"
       /\ work[c2].op.id = work[c1].op.id

====
